---- MODULE Spec2Model ----
(***************************************************************************)
(* Model of the job-tracking relay of Auto-ml-train: the in-memory job     *)
(* store `jobs`, the POST /api/upload handler (split at its two awaits),   *)
(* the POST /api/callback handler and the GET /api/status/:jobId handler   *)
(* of the server (src/unnamed/part_002), and the polling client            *)
(* UploadDataset (src/src/UploadDataset.jsx).                              *)
(***************************************************************************)
EXTENDS Integers, Sequences, FiniteSets, TLC

(* ---------------------------------------------------------------------- *)
(* Bounds                                                                  *)
(* ---------------------------------------------------------------------- *)
\* number of upload requests the model lets arrive
MaxReq == 2

Reqs == 1..MaxReq

\* pool of identifiers: one per request plus one that is never generated
IdPool == 1..(MaxReq + 1)

\* number of status polls of the client that can be in flight together
MaxPolls == 2

PollSlots == 1..MaxPolls

\* with submissions, polls are sent while the displayed progress is below
\* this value
PollBound == 34

(* ---------------------------------------------------------------------- *)
(* Values                                                                  *)
(* ---------------------------------------------------------------------- *)
\* JavaScript's undefined, for fields and payload members that are strings
Undefined == "<undefined>"

\* no csv part in the multipart body
NoFile == "<nofile>"

\* identifier carried by a payload without jobId
NoId == 0

FileNames == {"data.csv"}

\* req.body.email: missing, empty, or an address
Emails == {Undefined, "", "a@b.com"}

\* values for which JavaScript's `!x` / `x || d` take the falsy branch
Falsy == {Undefined, ""}

\* the status member of a callback payload
PayloadStatuses == {Undefined, "", "error", "queued"}

DisplayMetrics == {"0.92 R2"}

Messages == {"Great fit"}

\* req.body of POST /api/callback
Payloads ==
  [jobId : IdPool \cup {NoId}, status : PayloadStatuses,
   display_metric : DisplayMetrics, message : Messages]

\* what the file input can hand to handleFileChange: e.target.files[0]
\* with its name and the suffix of the name
ClientFiles ==
  {[name |-> "data.csv", suffix |-> ".csv"],
   [name |-> "notes.txt", suffix |-> ".txt"]}

\* no file: csv === null, or e.target.files[0] === undefined
NoCsv == [name |-> NoFile, suffix |-> ""]

\* what the email input can hold
ClientEmails == {"", "a@b.com"}

\* outcomes of the awaited supabase.storage upload
StorageOutcomes == {"ok", "error"}

\* outcomes of the awaited axios.post to the trainer webhook
TrainerOutcomes == {"ok", "timeout", "non2xx"}

(* ---------------------------------------------------------------------- *)
(* State                                                                   *)
(* ---------------------------------------------------------------------- *)
VARIABLES
  jobs,          \* const jobs = {}: function from the created ids to records
  nextId,        \* number of identifiers uuidv4 has generated
  upload,        \* per upload request: position, inputs, locals, response
  disk,          \* the uploads/ directory: file name -> content (0: no file)
  storageCalls,  \* calls made to supabase.storage upload
  trainerCalls,  \* bodies posted to the trainer webhook
  res,           \* the response sent by the latest handler step (NoRes: none)
  client,        \* the useState cells of UploadDataset
  mounted,       \* the component is mounted
  timers,        \* the active intervals, each named by the jobId it captured
  awaiting,      \* upload requests whose response handleSubmit awaits
  lost,          \* awaited upload requests that never reached the server
  polls,         \* the status polls in flight
  fileInput      \* the selection held by the form's file input

svars == <<jobs, nextId, upload, disk, storageCalls, trainerCalls, res>>

cvars == <<client, mounted, timers, awaiting, lost, polls, fileInput>>

vars == <<jobs, nextId, upload, disk, storageCalls, trainerCalls, res,
          client, mounted, timers, awaiting, lost, polls, fileInput>>

NoRes == [op |-> "none", code |-> 0, body |-> <<>>]

NewUpload ==
  [pc |-> "new", file |-> NoFile, email |-> Undefined, jobId |-> NoId,
   csvBuffer |-> 0, csvUrl |-> <<>>, code |-> 0, message |-> Undefined,
   resJobId |-> NoId]

\* the initial useState values
NewClient ==
  [csv |-> NoCsv, email |-> "", status |-> "idle", progress |-> 0,
   jobId |-> NoId, result |-> <<>>, errorMsg |-> <<>>]

FreePoll == [st |-> "free", jobId |-> NoId, resp |-> NoRes]

Init ==
  /\ client = NewClient
  /\ mounted = TRUE
  /\ timers = {}
  /\ awaiting = {}
  /\ lost = 0
  /\ polls = [k \in PollSlots |-> FreePoll]
  /\ fileInput = NoCsv
  /\ jobs = <<>>
  /\ nextId = 0
  /\ upload = [r \in Reqs |-> NewUpload]
  /\ disk = [n \in FileNames |-> 0]
  /\ storageCalls = {}
  /\ trainerCalls = {}
  /\ res = NoRes

(* ---------------------------------------------------------------------- *)
(* Helpers of the handlers                                                 *)
(* ---------------------------------------------------------------------- *)
\* const jobId = uuidv4(): an identifier that was never generated before;
\* n identifiers have been generated so far
uuidv4(n) == n + 1

\* jobs[jobId] is truthy
HasJob(js, id) == id \in DOMAIN js

\* the record written by "Initialize Job"
NewJob(id, email) ==
  [id |-> id, status |-> "uploading", progress |-> 10, email |-> email,
   result |-> <<>>, message |-> Undefined]

\* jobs[jobId] = {...}
PutJob(js, id, rec) ==
  [i \in DOMAIN js \cup {id} |-> IF i = id THEN rec ELSE js[i]]

\* a catch block that drops the failed job from the store
CatchJobsRemove(js, id, msg) ==
  [i \in DOMAIN js \ {id} |-> js[i]]

\* a catch block that marks the job without recording the failure message
CatchJobsNoMessage(js, id, msg) ==
  IF HasJob(js, id) THEN [js EXCEPT ![id].status = "error"] ELSE js

\* the catch block's update of the job record
CatchJobs(js, id, msg) ==
  IF HasJob(js, id)
    THEN [js EXCEPT ![id].status = "error", ![id].message = msg]
    ELSE js

\* a handler that forgets to set the status before it calls the trainer
MarkTrainingProgressOnly(js, id) == [js EXCEPT ![id].progress = 40]

\* a handler that forgets to advance the progress
MarkTrainingStatusOnly(js, id) == [js EXCEPT ![id].status = "training"]

\* jobs[jobId].status = "training"; jobs[jobId].progress = 40
MarkTraining(js, id) ==
  [js EXCEPT ![id].status = "training", ![id].progress = 40]

\* a handler that leaves the uploaded file in uploads/
UnlinkKeep(d, name) == d

\* if (fs.existsSync(csvPath)) fs.unlinkSync(csvPath)
Unlink(d, name) == [d EXCEPT ![name] = 0]

\* error.message of the failures the upload handler catches
ENOENT == "ENOENT: no such file or directory"
StorageFailed == "Supabase upload failed"
TrainerMessage(outcome) ==
  IF outcome = "timeout" THEN "timeout of 10000ms exceeded"
                         ELSE "Request failed with status code 500"

\* the prefix of `Upload process failed: ${error.message}`
UploadFailed == "Upload process failed: "

\* the key of the stored object and its public URL
StorageKey(r, name) == <<"uploads/", r, name>>
PublicUrl(key) == <<"publicUrl", key>>

CallbackUrl == "https://auto-ml-train-1.onrender.com/api/callback"

\* a handler that ignores the payload's status
StatusAlwaysCompleted(status) == "completed"

\* status || "completed"
StatusOrCompleted(status) ==
  IF status \in Falsy THEN "completed" ELSE status

\* a callback handler that creates the record of an unknown job
CallbackApplyUpsert(js, p) ==
  IF p.jobId = NoId THEN js
  ELSE PutJob(js, p.jobId,
         [id |-> p.jobId, status |-> StatusOrCompleted(p.status),
          progress |-> 100, email |-> Undefined,
          result |-> <<[display_metric |-> p.display_metric,
                        message |-> p.message]>>,
          message |-> IF HasJob(js, p.jobId) THEN js[p.jobId].message
                                             ELSE Undefined])

\* a callback handler that keeps every result it was sent
CallbackApplyAppend(js, p) ==
  IF p.jobId # NoId /\ HasJob(js, p.jobId)
    THEN [js EXCEPT ![p.jobId].status = StatusOrCompleted(p.status),
                    ![p.jobId].progress = 100,
                    ![p.jobId].result =
                       Append(@, [display_metric |-> p.display_metric,
                                  message |-> p.message])]
    ELSE js

\* a handler that writes the payload into every record
CallbackApplyAll(js, p) ==
  [i \in DOMAIN js |->
     [js[i] EXCEPT !.status = StatusOrCompleted(p.status),
                   !.progress = 100,
                   !.result = <<[display_metric |-> p.display_metric,
                                 message |-> p.message]>>]]

\* the callback handler's update of the job store
CallbackApply(js, p) ==
  IF p.jobId # NoId /\ HasJob(js, p.jobId)
    THEN [js EXCEPT ![p.jobId].status = StatusOrCompleted(p.status),
                    ![p.jobId].progress = 100,
                    ![p.jobId].result =
                       <<[display_metric |-> p.display_metric,
                          message |-> p.message]>>]
    ELSE js

CallbackAck ==
  [op |-> "callback", code |-> 200,
   body |-> <<[status |-> "success", message |-> "Callback processed"]>>]

\* the upload handler's responses
UploadRes(code, msg, err, id) ==
  [op |-> "upload", code |-> code,
   body |-> <<[message |-> msg, error |-> err, jobId |-> id]>>]

\* a validation that forgets the email
ValidationErrorFileOnly(file, email) ==
  IF file = NoFile THEN "CSV file is required" ELSE Undefined

\* the validation of the upload handler: the message of the HTTP 400, or
\* Undefined when the request passes
ValidationError(file, email) ==
  IF file = NoFile THEN "CSV file is required"
  ELSE IF email \in Falsy THEN "Email is required"
  ELSE Undefined

\* a status handler without the 404 branch
StatusResponseNo404(js, id) ==
  [op |-> "status", code |-> 200,
   body |-> IF HasJob(js, id) THEN <<js[id]>> ELSE <<>>]

\* the status handler's response
StatusResponse(js, id) ==
  IF ~HasJob(js, id)
    THEN [op |-> "status", code |-> 404,
          body |-> <<[status |-> "error", message |-> "Job not found"]>>]
    ELSE [op |-> "status", code |-> 200, body |-> <<js[id]>>]

(* ---------------------------------------------------------------------- *)
(* Actions                                                                 *)
(* ---------------------------------------------------------------------- *)
\* A multipart request reaches POST /api/upload: multer's disk storage
\* writes the csv part (if any) to uploads/<originalname>.  Requests are
\* interchangeable, so they arrive in index order.
Arrive(r, f, e) ==
  /\ upload[r].pc = "new"
  /\ IF r = 1 THEN TRUE ELSE upload[r - 1].pc # "new"
  /\ upload' = [upload EXCEPT ![r].pc = "stored", ![r].file = f,
                              ![r].email = e]
  /\ disk' = IF f = NoFile THEN disk ELSE [disk EXCEPT ![f] = r]
  /\ res' = NoRes
  /\ UNCHANGED <<jobs, nextId, storageCalls, trainerCalls>>

\* The handler from its entry to the await of the storage upload.
UploadBegin(r) ==
  /\ upload[r].pc = "stored"
  /\ LET jobId == uuidv4(nextId)
         u == upload[r]
         invalid == ValidationError(u.file, u.email)
     IN /\ nextId' = jobId
        /\ IF invalid # Undefined
             THEN /\ upload' = [upload EXCEPT ![r].pc = "done",
                       ![r].jobId = jobId, ![r].code = 400,
                       ![r].message = invalid]
                  /\ res' = UploadRes(400, invalid, Undefined, NoId)
                  /\ UNCHANGED <<jobs, storageCalls>>
           ELSE IF disk[u.file] = 0
             THEN \* fs.readFileSync throws
                  /\ jobs' = CatchJobs(PutJob(jobs, jobId,
                                NewJob(jobId, u.email)), jobId, ENOENT)
                  /\ upload' = [upload EXCEPT ![r].pc = "done",
                       ![r].jobId = jobId, ![r].code = 500,
                       ![r].message = ENOENT]
                  /\ res' = UploadRes(500, UploadFailed, ENOENT, NoId)
                  /\ UNCHANGED storageCalls
           ELSE /\ jobs' = PutJob(jobs, jobId, NewJob(jobId, u.email))
                /\ upload' = [upload EXCEPT ![r].pc = "storage",
                       ![r].jobId = jobId, ![r].csvBuffer = disk[u.file]]
                /\ storageCalls' = storageCalls \cup
                       {[key |-> StorageKey(r, u.file),
                         content |-> disk[u.file]]}
                /\ res' = NoRes
  /\ UNCHANGED <<disk, trainerCalls>>

\* The storage upload settles; the handler runs to the await of axios.post.
StorageReturn(r, outcome) ==
  /\ upload[r].pc = "storage"
  /\ LET u == upload[r]
         csvUrl == PublicUrl(StorageKey(r, u.file))
     IN IF outcome = "error"
          THEN /\ jobs' = CatchJobs(jobs, u.jobId, StorageFailed)
               /\ upload' = [upload EXCEPT ![r].pc = "done",
                     ![r].code = 500, ![r].message = StorageFailed]
               /\ res' = UploadRes(500, UploadFailed, StorageFailed, NoId)
               /\ UNCHANGED <<disk, trainerCalls>>
          ELSE /\ jobs' = MarkTraining(jobs, u.jobId)
               /\ disk' = Unlink(disk, u.file)
               /\ upload' = [upload EXCEPT ![r].pc = "trainer",
                     ![r].csvUrl = csvUrl]
               /\ trainerCalls' = trainerCalls \cup
                     {[csvUrl |-> csvUrl, email |-> u.email,
                       jobId |-> u.jobId, callback_url |-> CallbackUrl]}
               /\ res' = NoRes
  /\ UNCHANGED <<nextId, storageCalls>>

\* The trainer call settles; the handler answers the upload request.
TrainerReturn(r, outcome) ==
  /\ upload[r].pc = "trainer"
  /\ LET u == upload[r]
     IN IF outcome = "ok"
          THEN /\ upload' = [upload EXCEPT ![r].pc = "done",
                     ![r].code = 200, ![r].resJobId = u.jobId,
                     ![r].message = "CSV uploaded & ML training started"]
               /\ res' = UploadRes(200, "CSV uploaded & ML training started",
                                   Undefined, u.jobId)
               /\ UNCHANGED jobs
          ELSE /\ jobs' = CatchJobs(jobs, u.jobId, TrainerMessage(outcome))
               /\ upload' = [upload EXCEPT ![r].pc = "done",
                     ![r].code = 500,
                     ![r].message = TrainerMessage(outcome)]
               /\ res' = UploadRes(500, UploadFailed,
                                   TrainerMessage(outcome), NoId)
  /\ UNCHANGED <<nextId, disk, storageCalls, trainerCalls>>

\* POST /api/callback with body p
Callback(p) ==
  /\ jobs' = CallbackApply(jobs, p)
  /\ res' = CallbackAck
  /\ UNCHANGED <<nextId, upload, disk, storageCalls, trainerCalls>>

\* GET /api/status/:jobId
Status(id) ==
  /\ res' = StatusResponse(jobs, id)
  /\ UNCHANGED <<jobs, nextId, upload, disk, storageCalls, trainerCalls>>

(***************************************************************************)
(* The client UploadDataset                                                *)
(***************************************************************************)

\* file.name.endsWith(".csv")
EndsWithCsv(file) == file.suffix = ".csv"

\* a handler that accepts whatever was selected
SelectFileAny(c, file) ==
  IF file # NoCsv
    THEN [c EXCEPT !.csv = file, !.errorMsg = <<>>]
    ELSE c

\* the state after handleFileChange took the selection
SelectFile(c, file) ==
  IF file # NoCsv /\ EndsWithCsv(file)
    THEN [c EXCEPT !.csv = file, !.errorMsg = <<>>]
    ELSE c

\* the selection the file input holds after handleFileChange
InputValue(file) ==
  IF file # NoCsv /\ EndsWithCsv(file) THEN file ELSE NoCsv

\* the form is rendered when status is idle or error
FormShown(c) == c.status \in {"idle", "error"}

\* a file input exists, and keeps its selection, while the form is rendered
RenderInput(c, m, input) == IF m /\ FormShown(c) THEN input ELSE NoCsv

\* a handler that checks the file only
CanSubmitFileOnly(c) == c.csv # NoCsv

\* if (!csv || !email) return;
CanSubmit(c) == c.csv # NoCsv /\ c.email # ""

\* the synchronous part of handleSubmit
BeginSubmit(c) ==
  [c EXCEPT !.status = "uploading", !.progress = 10,
            !.errorMsg = <<>>, !.result = <<>>]

\* the message of a failed upload response, and of a request without one
ServerMessage(u) ==
  IF u.code = 400 THEN <<u.message>> ELSE <<UploadFailed, u.message>>

NetworkError == <<"Network Error">>

\* handleSubmit after the await: code 0 is a request without a response
SubmitSettled(c, code, id, message) ==
  IF code = 200
    THEN [c EXCEPT !.jobId = id, !.status = "training", !.progress = 30]
    ELSE [c EXCEPT !.status = "error", !.errorMsg = message]

CloudFailed == <<"Cloud training failed. Please check your data.">>

\* a poll that got no response
NetworkFailure == [op |-> "status", code |-> 0, body |-> <<>>]

Min(a, b) == IF a < b THEN a ELSE b

\* a callback without the cap
PollSettledNoCap(c, resp) ==
  IF resp.code # 200
    THEN c
    ELSE LET job == resp.body[1]
         IN IF job.status = "completed"
              THEN [c EXCEPT !.status = "completed", !.progress = 100,
                             !.result = job.result]
            ELSE IF job.status = "error"
              THEN [c EXCEPT !.status = "error", !.errorMsg = CloudFailed]
            ELSE [c EXCEPT !.progress = c.progress + 2]

\* the interval callback after the await of axios.get
PollSettled(c, resp) ==
  IF resp.code # 200
    THEN c
    ELSE LET job == resp.body[1]
         IN IF job.status = "completed"
              THEN [c EXCEPT !.status = "completed", !.progress = 100,
                             !.result = job.result]
            ELSE IF job.status = "error"
              THEN [c EXCEPT !.status = "error", !.errorMsg = CloudFailed]
            ELSE [c EXCEPT !.progress = Min(c.progress + 2, 95)]

\* the poll's callback reaches clearInterval(interval)
PollTerminal(resp) ==
  /\ resp.code = 200
  /\ resp.body[1].status \in {"completed", "error"}

\* an effect that never clears its interval
CleanupKeep(ts, c) == ts

\* return () => clearInterval(interval)
Cleanup(ts, c) == ts \ {c.jobId}

\* the polling effect, run when status or jobId changed from c to c2
PollingEffect(c, c2, ts) ==
  IF c2.status = c.status /\ c2.jobId = c.jobId
    THEN ts
    ELSE Cleanup(ts, c) \cup
           (IF c2.status = "training" /\ c2.jobId # NoId
              THEN {c2.jobId} ELSE {})

\* "Train Another Model"
ResetClient(c) ==
  [c EXCEPT !.status = "idle", !.csv = NoCsv, !.email = "",
            !.result = <<>>, !.progress = 0]

\* The server under arbitrary requests.
Next ==
  \/ \E r \in Reqs, f \in FileNames \cup {NoFile}, e \in Emails :
        Arrive(r, f, e) /\ UNCHANGED cvars
  \/ \E r \in Reqs : UploadBegin(r) /\ UNCHANGED cvars
  \/ \E r \in Reqs, o \in StorageOutcomes :
        StorageReturn(r, o) /\ UNCHANGED cvars
  \/ \E r \in Reqs, o \in TrainerOutcomes :
        TrainerReturn(r, o) /\ UNCHANGED cvars
  \/ \E p \in Payloads : Callback(p) /\ UNCHANGED cvars
  \/ \E id \in IdPool : Status(id) /\ UNCHANGED cvars

Spec == Init /\ [][Next]_vars

\* The server with the scheduling the code guarantees: a handler whose
\* request was stored runs, and the trainer call settles (axios rejects it
\* after `timeout: 10000`).  The storage upload has no timeout of its own.
SpecFair ==
  /\ Spec
  /\ WF_vars(\E r \in Reqs : UploadBegin(r) /\ UNCHANGED cvars)
  /\ WF_vars(\E r \in Reqs, o \in TrainerOutcomes :
                TrainerReturn(r, o) /\ UNCHANGED cvars)

(***************************************************************************)
(* The client's handlers                                                   *)
(***************************************************************************)

\* onChange of the file input
handleFileChange(file) ==
  /\ mounted
  /\ FormShown(client)
  /\ client' = SelectFile(client, file)
  /\ fileInput' = InputValue(file)
  /\ UNCHANGED <<svars, mounted, timers, awaiting, lost, polls>>

\* onChange of the email input
setEmail(e) ==
  /\ mounted
  /\ FormShown(client)
  /\ client' = [client EXCEPT !.email = e]
  /\ UNCHANGED <<svars, mounted, timers, awaiting, lost, polls, fileInput>>

\* onSubmit of the form, up to the await of axios.post; the request reaches
\* the server (delivered) or does not
handleSubmit(delivered) ==
  /\ mounted
  /\ FormShown(client)
  /\ IF ~CanSubmit(client)
       THEN UNCHANGED vars
       ELSE /\ client' = BeginSubmit(client)
            /\ timers' = PollingEffect(client, client', timers)
            /\ fileInput' = RenderInput(client', mounted, fileInput)
            /\ IF delivered
                 THEN /\ \E r \in Reqs :
                           /\ Arrive(r, client.csv.name, client.email)
                           /\ awaiting' = awaiting \cup {r}
                      /\ UNCHANGED lost
                 ELSE /\ lost' = lost + 1
                      /\ UNCHANGED <<svars, awaiting>>
            /\ UNCHANGED <<mounted, polls>>

\* the upload response of request r arrives
UploadResolve(r) ==
  /\ r \in awaiting
  /\ upload[r].pc = "done"
  /\ awaiting' = awaiting \ {r}
  /\ client' = IF mounted
                 THEN SubmitSettled(client, upload[r].code,
                                    upload[r].resJobId,
                                    ServerMessage(upload[r]))
                 ELSE client
  /\ timers' = PollingEffect(client, client', timers)
  /\ fileInput' = RenderInput(client', mounted, fileInput)
  /\ UNCHANGED <<svars, mounted, lost, polls>>

\* an upload request that never reached the server fails
UploadReject ==
  /\ lost > 0
  /\ lost' = lost - 1
  /\ client' = IF mounted
                 THEN SubmitSettled(client, 0, NoId, NetworkError)
                 ELSE client
  /\ timers' = PollingEffect(client, client', timers)
  /\ fileInput' = RenderInput(client', mounted, fileInput)
  /\ UNCHANGED <<svars, mounted, awaiting, polls>>

\* the interval that captured jobId j fires: axios.get is sent
Tick(k, j) ==
  /\ j \in timers
  /\ polls[k].st = "free"
  /\ \A i \in PollSlots : i < k => polls[i].st # "free"
  /\ polls' = [polls EXCEPT ![k] = [st |-> "sent", jobId |-> j,
                                    resp |-> NoRes]]
  /\ UNCHANGED <<svars, client, mounted, timers, awaiting, lost, fileInput>>

\* the server answers poll k
PollServe(k) ==
  /\ polls[k].st = "sent"
  /\ Status(polls[k].jobId)
  /\ polls' = [polls EXCEPT ![k].st = "served",
                            ![k].resp = StatusResponse(jobs, polls[k].jobId)]
  /\ UNCHANGED <<client, mounted, timers, awaiting, lost, fileInput>>

\* poll k gets no response
PollFail(k) ==
  /\ polls[k].st = "sent"
  /\ polls' = [polls EXCEPT ![k].st = "served", ![k].resp = NetworkFailure]
  /\ UNCHANGED <<svars, client, mounted, timers, awaiting, lost, fileInput>>

\* the interval callback of poll k resumes after its await
PollReceive(k) ==
  /\ polls[k].st = "served"
  /\ polls' = [polls EXCEPT ![k] = FreePoll]
  /\ client' = IF mounted THEN PollSettled(client, polls[k].resp)
                          ELSE client
  /\ timers' = PollingEffect(client, client',
                 IF PollTerminal(polls[k].resp)
                   THEN timers \ {polls[k].jobId} ELSE timers)
  /\ fileInput' = RenderInput(client', mounted, fileInput)
  /\ UNCHANGED <<svars, mounted, awaiting, lost>>

\* onClick of "Train Another Model", rendered with the result card
TrainAnother ==
  /\ mounted
  /\ client.status = "completed"
  /\ client.result # <<>>
  /\ client' = ResetClient(client)
  /\ timers' = PollingEffect(client, client', timers)
  /\ fileInput' = RenderInput(client', mounted, fileInput)
  /\ UNCHANGED <<svars, mounted, awaiting, lost, polls>>

\* the component is unmounted: the effect's cleanup runs
Unmount ==
  /\ mounted
  /\ mounted' = FALSE
  /\ timers' = Cleanup(timers, client)
  /\ fileInput' = NoCsv
  /\ UNCHANGED <<svars, client, awaiting, lost, polls>>

\* the callbacks of the trainer: for the jobs it was asked to train
TrainerPayloads ==
  {p \in Payloads : \E c \in trainerCalls : c.jobId = p.jobId}

\* The client against the server and its trainer.
NextClient ==
  \/ \E f \in ClientFiles : handleFileChange(f)
  \/ \E e \in ClientEmails : setEmail(e)
  \/ \E d \in BOOLEAN : handleSubmit(d)
  \/ \E r \in Reqs : UploadResolve(r)
  \/ UploadReject
  \/ \E k \in PollSlots, j \in IdPool :
        client.progress < PollBound /\ Tick(k, j)
  \/ \E k \in PollSlots : PollServe(k)
  \/ \E k \in PollSlots : PollFail(k)
  \/ \E k \in PollSlots : PollReceive(k)
  \/ TrainAnother
  \/ Unmount
  \/ \E r \in Reqs : UploadBegin(r) /\ UNCHANGED cvars
  \/ \E r \in Reqs, o \in StorageOutcomes :
        StorageReturn(r, o) /\ UNCHANGED cvars
  \/ \E r \in Reqs, o \in TrainerOutcomes :
        TrainerReturn(r, o) /\ UNCHANGED cvars
  \/ \E p \in TrainerPayloads : Callback(p) /\ UNCHANGED cvars

SpecClient == Init /\ [][NextClient]_vars

\* The state when the response of a first, successful upload has arrived:
\* the job is in training and the client tracks it.
InitPoll ==
  LET id == uuidv4(0)
      file == "data.csv"
      email == "a@b.com"
      csvUrl == PublicUrl(StorageKey(1, file))
      message == "CSV uploaded & ML training started"
      csv == CHOOSE f \in ClientFiles : f.name = file
  IN /\ jobs = MarkTraining(PutJob(<<>>, id, NewJob(id, email)), id)
     /\ nextId = id
     /\ upload = [r \in Reqs |->
                    IF r = 1
                      THEN [NewUpload EXCEPT !.pc = "done", !.file = file,
                              !.email = email, !.jobId = id,
                              !.csvBuffer = 1, !.csvUrl = csvUrl,
                              !.code = 200, !.message = message,
                              !.resJobId = id]
                      ELSE NewUpload]
     /\ disk = Unlink([n \in FileNames |-> 1], file)
     /\ storageCalls = {[key |-> StorageKey(1, file), content |-> 1]}
     /\ trainerCalls = {[csvUrl |-> csvUrl, email |-> email, jobId |-> id,
                         callback_url |-> CallbackUrl]}
     /\ res = UploadRes(200, message, Undefined, id)
     /\ client = SubmitSettled(
                   BeginSubmit([NewClient EXCEPT !.csv = csv,
                                                 !.email = email]),
                   200, id, <<>>)
     /\ mounted = TRUE
     /\ timers = {id}
     /\ awaiting = {}
     /\ lost = 0
     /\ polls = [k \in PollSlots |-> FreePoll]
     /\ fileInput = NoCsv

\* The polling of one job, up to the cap of the displayed progress.
NextPoll ==
  \/ \E k \in PollSlots, j \in IdPool : Tick(k, j)
  \/ \E k \in PollSlots : PollServe(k)
  \/ \E k \in PollSlots : PollFail(k)
  \/ \E k \in PollSlots : PollReceive(k)
  \/ Unmount
  \/ \E p \in TrainerPayloads : Callback(p) /\ UNCHANGED cvars

SpecPoll == InitPoll /\ [][NextPoll]_vars

(* ---------------------------------------------------------------------- *)
(* Properties                                                              *)
(* ---------------------------------------------------------------------- *)
\* the four statuses of a job record
SpecStatuses == {"uploading", "training", "completed", "error"}

\* the order uploading -> training -> {completed | error}
Rank(s) ==
  CASE s = "uploading" -> 1
    [] s = "training" -> 2
    [] s = "completed" -> 3
    [] s = "error" -> 3
    [] OTHER -> 0

Terminal == {"completed", "error"}

\* the upload request r has created its job record
Created(up, r) ==
  \/ up[r].pc \in {"storage", "trainer"}
  \/ up[r].pc = "done" /\ up[r].code \in {200, 500}

\* C1: the status of every job record only moves forward in the order
\* uploading -> training -> {completed | error}, and a completed or error
\* record never changes its status again.
C1_StatusOnlyForward ==
  [][\A id \in DOMAIN jobs :
        /\ Rank(jobs'[id].status) >= Rank(jobs[id].status)
        /\ jobs[id].status \in Terminal =>
             jobs'[id].status = jobs[id].status]_vars

\* C2: a job record has a result if and only if its status is completed.
C2_ResultIffCompleted ==
  \A id \in DOMAIN jobs :
     (jobs[id].result # <<>>) <=> (jobs[id].status = "completed")

C5_InvalidUploadLeavesStore ==
  [][\A r \in Reqs :
        (UploadBegin(r) /\ (upload[r].file = NoFile
                             \/ upload[r].email \in {Undefined, ""})) =>
          /\ upload'[r].pc = "done" /\ upload'[r].code = 400
          /\ res'.op = "upload" /\ res'.code = 400
          /\ jobs' = jobs
          /\ ~HasJob(jobs', upload'[r].jobId)
          /\ storageCalls' = storageCalls
          /\ trainerCalls' = trainerCalls]_vars

\* a request without email was answered 400 while another one has its job
C5_Witness ==
  \E r, q \in Reqs :
     /\ upload[r].code = 400 /\ upload[r].file # NoFile
     /\ upload[r].email = Undefined
     /\ ~HasJob(jobs, upload[r].jobId)
     /\ upload[q].code = 200 /\ HasJob(jobs, upload[q].jobId)

C7_CallbackSetsRecord ==
  [][\A p \in Payloads :
        (Callback(p) /\ p.jobId # NoId /\ p.jobId \in DOMAIN jobs) =>
          /\ jobs'[p.jobId].status =
               (IF p.status \in {Undefined, ""} THEN "completed"
                                                ELSE p.status)
          /\ jobs'[p.jobId].progress = 100
          /\ jobs'[p.jobId].result =
               <<[display_metric |-> p.display_metric,
                  message |-> p.message]>>]_vars

\* a callback completed a job that was training
C7_Witness ==
  /\ res.op = "callback"
  /\ \E id \in DOMAIN jobs :
        /\ jobs[id].status = "completed" /\ jobs[id].progress = 100
        /\ jobs[id].result = <<[display_metric |-> "0.92 R2",
                                message |-> "Great fit"]>>
        /\ \E r \in Reqs : upload[r].jobId = id /\ upload[r].pc = "trainer"

\* C8: after a callback payload was delivered, delivering the same payload
\* again changes no field of any record of the store.
C8_CallbackIdempotent ==
  [][\A p \in Payloads :
        Callback(p) => CallbackApply(jobs', p) = jobs']_vars

\* a callback has just updated the record of a known job with a status
\* outside the defaults
C8_Witness ==
  /\ res.op = "callback"
  /\ \E id \in DOMAIN jobs :
        jobs[id].status = "error" /\ jobs[id].progress = 100
                                  /\ jobs[id].result # <<>>

C10_StatusInEnum ==
  \A id \in DOMAIN jobs : jobs[id].status \in SpecStatuses

\* the position of an upload request in its handler
PcRank(pc) ==
  CASE pc = "new" -> 0
    [] pc = "stored" -> 1
    [] pc = "storage" -> 2
    [] pc = "trainer" -> 3
    [] pc = "done" -> 4

\* C11: within one upload request every step happens once and in order:
\* the record is created as uploading/10 in the step that starts the
\* storage upload; it is set to training (and the trainer is called, with
\* the storage URL, the email, the request's jobId and the callback URL)
\* only when the pending storage upload succeeded; the success response
\* with the jobId is sent only when the pending trainer call succeeded.
C11_StepsInOrder ==
  [][/\ \A r \in Reqs :
          /\ upload'[r].pc # upload[r].pc =>
               PcRank(upload'[r].pc) > PcRank(upload[r].pc)
          /\ (upload'[r].pc = "storage" /\ upload[r].pc # "storage") =>
               /\ upload[r].pc = "stored"
               /\ ~HasJob(jobs, upload'[r].jobId)
               /\ jobs'[upload'[r].jobId].status = "uploading"
               /\ jobs'[upload'[r].jobId].progress = 10
               /\ storageCalls' \ storageCalls =
                    {[key |-> StorageKey(r, upload[r].file),
                      content |-> upload'[r].csvBuffer]}
          /\ (upload'[r].pc = "trainer" /\ upload[r].pc # "trainer") =>
               /\ upload[r].pc = "storage"
               /\ jobs'[upload[r].jobId].status = "training"
               /\ trainerCalls' \ trainerCalls =
                    {[csvUrl |-> PublicUrl(StorageKey(r, upload[r].file)),
                      email |-> upload[r].email,
                      jobId |-> upload[r].jobId,
                      callback_url |->
                        "https://auto-ml-train-1.onrender.com/api/callback"]}
          /\ (upload'[r].code = 200 /\ upload[r].code # 200) =>
               /\ upload[r].pc = "trainer" /\ upload'[r].pc = "done"
               /\ upload'[r].resJobId = upload[r].jobId
               /\ \E c \in trainerCalls : c.jobId = upload[r].jobId
     /\ storageCalls' # storageCalls =>
          \E r \in Reqs : upload[r].pc = "stored" /\ upload'[r].pc = "storage"
     /\ trainerCalls' # trainerCalls =>
          \E r \in Reqs : upload[r].pc = "storage" /\ upload'[r].pc = "trainer"
    ]_vars

\* an upload went through all its steps and was answered with success
C11_Witness ==
  \E r \in Reqs :
     /\ upload[r].pc = "done" /\ upload[r].code = 200
     /\ \E c \in trainerCalls : c.jobId = upload[r].resJobId
     /\ \E c \in storageCalls : c.key = StorageKey(r, upload[r].file)

\* C12: once an upload request has passed the discard step (while it
\* waits for the trainer and ever after), the local copy of the file it
\* uploaded is not in uploads/.
C12_LocalCopyDiscarded ==
  \A r \in Reqs :
     (upload[r].pc = "trainer"
        \/ (upload[r].pc = "done" /\ upload[r].csvUrl # <<>>)) =>
       disk[upload[r].file] # r

\* a request waits for the trainer while the path holds another request's file
C12_Witness ==
  \E r, q \in Reqs :
     /\ r # q
     /\ upload[r].pc = "trainer"
     /\ upload[q].file = upload[r].file
     /\ disk[upload[r].file] = q

\* C13 as stated: right after a success response the status handler
\* returns the record with status training and progress between 30 and 40.
C13_TrainingAfterSuccess ==
  [][\A r \in Reqs :
        (upload'[r].code = 200 /\ upload[r].code # 200) =>
          /\ StatusResponse(jobs', upload'[r].resJobId).code = 200
          /\ StatusResponse(jobs', upload'[r].resJobId).body[1].status
               = "training"
          /\ StatusResponse(jobs', upload'[r].resJobId).body[1].progress
               \in 30..40]_vars

\* C13 amended: right after a success response the status handler returns
\* the record with status training and progress 40, unless a callback for
\* the job was processed after the handler set it to training; then the
\* record carries progress 100 and the result written by the callback.
C13_TrainingUnlessCallback ==
  [][\A r \in Reqs :
        (upload'[r].code = 200 /\ upload[r].code # 200) =>
          LET a == StatusResponse(jobs', upload'[r].resJobId)
          IN /\ a.code = 200
             /\ IF a.body[1].progress = 100
                  THEN a.body[1].result # <<>>
                  ELSE /\ a.body[1].status = "training"
                       /\ a.body[1].progress = 40]_vars

\* an upload was just answered with success and its record is training/40
C13_Witness ==
  /\ res.op = "upload" /\ res.code = 200
  /\ HasJob(jobs, res.body[1].jobId)
  /\ jobs[res.body[1].jobId].status = "training"
  /\ jobs[res.body[1].jobId].progress = 40

\* C14: every upload request whose handler is entered is eventually
\* answered, even when an external service never answers.
C14_UploadAnswered ==
  \A r \in Reqs : (upload[r].pc = "stored") ~> (upload[r].pc = "done")

\* a step that starts a new attempt: handleSubmit leaves the form, or
\* "Train Another Model" returns to it
NewAttempt ==
  \/ client'.status = "uploading" /\ client.status # "uploading"
  \/ client'.status = "idle" /\ client.status # "idle"

\* poll k resumes in this step with a completed record
ReceivesCompleted(k) ==
  /\ polls[k].st = "served"
  /\ polls'[k].st = "free"
  /\ polls[k].resp.code = 200
  /\ polls[k].resp.body[1].status = "completed"

\* C15: within an attempt the displayed progress never decreases, and it
\* becomes 100 only in a step that receives a poll response with status
\* completed.
C15_ProgressMonotone ==
  [][/\ ~NewAttempt => client'.progress >= client.progress
     /\ (client'.progress = 100 /\ client.progress # 100)
           => \E k \in PollSlots : ReceivesCompleted(k)]_vars

\* the transitions of the client's status that the state diagram has,
\* with the failure of an upload
ClientTransitions ==
  {<<"idle", "uploading">>, <<"uploading", "training">>,
   <<"uploading", "error">>, <<"training", "completed">>,
   <<"training", "error">>, <<"completed", "idle">>, <<"error", "idle">>}

\* C16: the client's status changes only along idle -> uploading ->
\* training -> {completed | error} and the resets from completed and from
\* error back to idle.
C16_StatusTransitions ==
  [][client'.status # client.status
       => <<client.status, client'.status>> \in ClientTransitions]_vars

\* the upload requests the client has sent and not yet seen settle
Pending == Cardinality(awaiting) + lost

\* C17: a submission without a file or without an email changes nothing and
\* sends nothing; a submission with both moves the mounted client to
\* uploading and sends exactly one request; a successful response stores
\* the returned jobId and moves the client to training; a failed one moves
\* it to error with the server's message, or with the transport's message
\* when there was no response.
C17_SubmitOutcomes ==
  [][/\ \A d \in BOOLEAN :
          handleSubmit(d) =>
            IF client.csv = NoCsv \/ client.email = ""
              THEN UNCHANGED vars
              ELSE /\ client'.status = "uploading"
                   /\ Pending' = Pending + 1
                   /\ Cardinality({r \in Reqs : upload'[r].pc # "new"})
                        = Cardinality({r \in Reqs : upload[r].pc # "new"})
                            + (IF d THEN 1 ELSE 0)
     /\ \A r \in Reqs :
          (UploadResolve(r) /\ mounted) =>
            IF upload[r].code = 200
              THEN /\ client'.status = "training"
                   /\ client'.jobId = upload[r].jobId
              ELSE /\ client'.status = "error"
                   /\ client'.errorMsg = <<UploadFailed, upload[r].message>>
     /\ (UploadReject /\ mounted) =>
            /\ client'.status = "error"
            /\ client'.errorMsg = NetworkError]_vars

\* a first upload failed at the server, a second one succeeded and the
\* client tracks its job
C17_Witness ==
  /\ mounted
  /\ upload[1].code = 500
  /\ upload[2].code = 200
  /\ awaiting = {}
  /\ client.status = "training"
  /\ client.jobId = upload[2].jobId

\* the response of poll k carries a record with status s
Observes(k, s) ==
  /\ polls[k].resp.code = 200
  /\ polls[k].resp.body[1].status = s

\* C18: at most one polling timer is active, and only while the mounted
\* client is in training and holds the jobId the timer captured; a poll is
\* sent only then; a poll that observes completed captures the result, sets
\* progress to 100 and clears the timer; one that observes error sets the
\* fixed message and clears the timer; an unmount clears the timer; with no
\* timer no tick fires.
C18_PollingTimer ==
  /\ [](/\ Cardinality(timers) <= 1
        /\ timers # {} => /\ mounted
                          /\ client.status = "training"
                          /\ client.jobId # NoId
                          /\ timers = {client.jobId})
  /\ [][/\ \A k \in PollSlots :
             /\ (polls[k].st # "sent" /\ polls'[k].st = "sent")
                  => /\ timers # {}
                     /\ client.status = "training"
                     /\ polls'[k].jobId = client.jobId
                     /\ client.jobId # NoId
             /\ (PollReceive(k) /\ Observes(k, "completed"))
                  => /\ timers' = {}
                     /\ mounted => /\ client'.status = "completed"
                                   /\ client'.progress = 100
                                   /\ client'.result
                                        = polls[k].resp.body[1].result
             /\ (PollReceive(k) /\ Observes(k, "error"))
                  => /\ timers' = {}
                     /\ mounted => /\ client'.status = "error"
                                   /\ client'.errorMsg = CloudFailed
        /\ Unmount => timers' = {}]_vars

\* a poll observed completed: the result is shown and no timer is left
C18_Witness ==
  /\ mounted
  /\ client.status = "completed"
  /\ client.progress = 100
  /\ client.result # <<>>
  /\ timers = {}
  /\ \A k \in PollSlots : polls[k].st = "free"

\* the outcome of poll k is neither a completed nor an error record
NonTerminal(k) == ~Observes(k, "completed") /\ ~Observes(k, "error")

\* the poll leaves status, jobId, result and error message alone
PollFrame ==
  /\ client'.status = client.status
  /\ client'.jobId = client.jobId
  /\ client'.result = client.result
  /\ client'.errorMsg = client.errorMsg

\* C19 as stated: every poll of the mounted client whose outcome is neither
\* a completed nor an error record, a poll that failed in transport
\* included, leaves status, jobId, result and error message unchanged and
\* sets the progress to min(previous + 2, 95).
C19_EveryPollAdvances ==
  [][\A k \in PollSlots :
       (PollReceive(k) /\ mounted /\ NonTerminal(k))
         => /\ PollFrame
            /\ client'.progress = Min(client.progress + 2, 95)]_vars

\* C19, amended: such a poll leaves status, jobId, result and error message
\* unchanged; when it carries a record the progress becomes
\* min(previous + 2, 95), and when it failed the progress is unchanged too.
C19_AnsweredPollAdvances ==
  [][\A k \in PollSlots :
       (PollReceive(k) /\ mounted /\ NonTerminal(k))
         => /\ PollFrame
            /\ client'.progress =
                 IF polls[k].resp.code = 200
                   THEN Min(client.progress + 2, 95)
                   ELSE client.progress]_vars

\* the client is still in training and the progress has met the cap
C19_Witness ==
  /\ mounted
  /\ client.status = "training"
  /\ client.progress = 95

\* the names of the files whose name ends in .csv
CsvNames == {f.name : f \in {g \in ClientFiles : g.suffix = ".csv"}}

\* C20: the chosen file is always a .csv file and so is the file of every
\* upload request the client sent; selecting a file that is not a .csv file
\* changes no client state, whatever was chosen before, and empties the
\* file input.
C20_OnlyCsvSent ==
  /\ [](/\ client.csv # NoCsv => client.csv.suffix = ".csv"
        /\ \A r \in Reqs : upload[r].pc # "new" => upload[r].file \in CsvNames)
  /\ [][\A f \in ClientFiles :
          (handleFileChange(f) /\ f.suffix # ".csv")
            => /\ client' = client
               /\ fileInput' = NoCsv]_vars

\* a .csv file was chosen and a later selection was rejected: the file
\* input is empty and the chosen file is still the .csv file
C20_Witness ==
  /\ mounted
  /\ client.status = "idle"
  /\ client.csv # NoCsv
  /\ fileInput = NoCsv

\* The polling of one job when the interval keeps firing, every poll in
\* flight settles and resumes, and polls are answered again and again.
SpecPollFair ==
  /\ SpecPoll
  /\ WF_vars(\E k \in PollSlots, j \in IdPool : Tick(k, j))
  /\ \A k \in PollSlots :
       /\ SF_vars(PollServe(k))
       /\ WF_vars(PollReceive(k))

\* the mounted client is in training for job j
Tracking(j) ==
  /\ mounted
  /\ client.status = "training"
  /\ client.jobId = j

\* the server's record of job j has status s
RecordIs(j, s) == HasJob(jobs, j) /\ jobs[j].status = s

\* C21: if the client is in training for job j and from then on it stays
\* mounted and the server's record of j stays completed (or stays error),
\* the client eventually shows completed (or error).
C21_ClientLeavesTraining ==
  \A j \in IdPool : \A s \in {"completed", "error"} :
    []((Tracking(j) /\ [](mounted /\ RecordIs(j, s)))
          => <>(client.status = s))

\* the records of the jobs other than id are what they were, no record is
\* removed or added besides id's, and id's record keeps its id and email
OnlyJobTouched(id) ==
  /\ DOMAIN jobs \subseteq DOMAIN jobs'
  /\ DOMAIN jobs' \subseteq DOMAIN jobs \cup {id}
  /\ \A i \in DOMAIN jobs :
       IF i = id
         THEN /\ jobs'[i].id = jobs[i].id
              /\ jobs'[i].email = jobs[i].email
         ELSE jobs'[i] = jobs[i]

\* C22: every step of the upload request of job J, and every callback that
\* names job J, leaves the records of all other jobs unchanged and keeps
\* the id and the email of J's record.
C22_OtherJobsUntouched ==
  [][/\ \A r \in Reqs :
          /\ UploadBegin(r) => OnlyJobTouched(uuidv4(nextId))
          /\ (\E o \in StorageOutcomes : StorageReturn(r, o))
                => OnlyJobTouched(upload[r].jobId)
          /\ (\E o \in TrainerOutcomes : TrainerReturn(r, o))
                => OnlyJobTouched(upload[r].jobId)
     /\ \A p \in Payloads : Callback(p) => OnlyJobTouched(p.jobId)]_vars

\* a callback has just completed job 1 while job 2 is still in training
C22_Witness ==
  /\ res = CallbackAck
  /\ HasJob(jobs, 1)
  /\ HasJob(jobs, 2)
  /\ jobs[1].status = "completed"
  /\ jobs[2].status = "training"

\* C23: every upload request reads, and sends to storage, the content of
\* its own file, and no request fails because its local copy is missing.
C23_OwnFileRead ==
  /\ \A r \in Reqs :
       /\ upload[r].csvBuffer \in {0, r}
       /\ upload[r].message # ENOENT
  /\ \A c \in storageCalls : c.key = StorageKey(c.content, c.key[3])

\* C24: when the mounted client is not in training, or tracks another job
\* than the one a poll asked about, the response of that poll changes no
\* client state.
C24_StalePollIgnored ==
  [][\A k \in PollSlots :
       (/\ PollReceive(k)
        /\ mounted
        /\ client.status # "training" \/ client.jobId # polls[k].jobId)
         => client' = client]_vars

====
